---- MODULE Spec2Model ----
(***************************************************************************)
(* Hua Rong Dao solver (src/solution.py): the board, the move generator,   *)
(* the heuristic, the two searches (DFS, A_star) and the main block with   *)
(* write_to_file, as a state machine; goal_test and get_heuristic of       *)
(* src/hrd_starter.py as operators on the same boards.                     *)
(*                                                                         *)
(* Python objects are values here; a State object is referred to by its    *)
(* index in the arena `states` (0 stands for None).  Python's 0-based      *)
(* grid[y][x] is kept 0-based; the two-element list                        *)
(* goal_piece_coordinates [x, y] is the tuple <<x, y>>.                    *)
(***************************************************************************)
EXTENDS Integers, Sequences, FiniteSets, TLC

VARIABLES
    pc,          \* position of the main block / of the running search
    algo,        \* args.algo: "astar" or "dfs"
    seed,        \* the process's string-hash key (PYTHONHASHSEED)
    in_pieces,   \* the piece list handed to Board(...)
    states,      \* arena of the State objects that are referenced
    frontier,    \* the search's frontier: list of State references
    visited,     \* the search's visited set of ids
    solution,    \* what the search returned: a State reference, 0 for None
    expanded,    \* history: the ids generate_successors was called on, in order
    output,      \* the boards write_to_file has written, in order
    previous,    \* history: the output of the program's former run, << >> if none
    suspended,   \* the locals of a second search that is not running now
    alone        \* history: what the search returned when it ran alone

vars == <<pc, algo, seed, in_pieces, states, frontier, visited, solution,
          expanded, output, previous, suspended, alone>>

----------------------------------------------------------------------------
(* Program constants *)

width == 4
height == 5
char_goal == "1"
char_single == "2"
char_empty == "."
position_end_x == 1
position_end_y == 3
None == 0

(* Bounds of the model *)

\* number of string-hash keys the process may start with
NumSeeds == 2
\* a sparse initial board holds the goal piece at (1, 0) and one more piece,
\* anchored at a cell whose row-major number y * width + x is at most this
MaxExtraCell == 9
\* the same number for the boards two searches are run together on
MaxRaceCell == 0

----------------------------------------------------------------------------
(* Piece and Board *)

Piece(is_goal, is_single, coord_x, coord_y, orientation) ==
    [is_goal |-> is_goal, is_single |-> is_single, coord_x |-> coord_x,
     coord_y |-> coord_y, orientation |-> orientation]

\* body(value), the value computed once: a Python local bound by an
\* assignment and read several times afterwards
Bind(value, body(_)) == CHOOSE result \in {body(x) : x \in {value}} : TRUE

EmptyGrid == [i \in 0 .. height - 1 |-> [j \in 0 .. width - 1 |-> char_empty]]

\* Python list indexing: i is valid for a list of length n iff -n <= i < n,
\* and a negative i counts from the end.
PyIndexOk(i, n) == -n <= i /\ i < n
PyIndex(i, n) == IF i < 0 THEN n + i ELSE i

\* mutant of __construct_grid: the branch of the 1x1 pieces is missing, and
\* a 1x1 piece (orientation None) is not drawn
PieceWrites_SingleNotDrawn(piece) ==
    LET x == piece.coord_x
        y == piece.coord_y
    IN  IF piece.is_goal
        THEN << <<y, x, char_goal>>, <<y, x + 1, char_goal>>,
                <<y + 1, x, char_goal>>, <<y + 1, x + 1, char_goal>> >>
        ELSE IF piece.orientation = "h"
        THEN << <<y, x, "<">>, <<y, x + 1, ">">> >>
        ELSE IF piece.orientation = "v"
        THEN << <<y, x, "^">>, <<y + 1, x, "v">> >>
        ELSE << >>

\* The assignments self.grid[y][x] = ch that __construct_grid makes for one
\* piece, in order, as <<y, x, ch>>.
PieceWrites(piece) ==
    LET x == piece.coord_x
        y == piece.coord_y
    IN  IF piece.is_goal
        THEN << <<y, x, char_goal>>, <<y, x + 1, char_goal>>,
                <<y + 1, x, char_goal>>, <<y + 1, x + 1, char_goal>> >>
        ELSE IF piece.is_single
        THEN << <<y, x, char_single>> >>
        ELSE IF piece.orientation = "h"
        THEN << <<y, x, "<">>, <<y, x + 1, ">">> >>
        ELSE IF piece.orientation = "v"
        THEN << <<y, x, "^">>, <<y + 1, x, "v">> >>
        ELSE << >>

RECURSIVE AllWrites(_)
AllWrites(pieces) ==
    IF pieces = << >> THEN << >>
    ELSE PieceWrites(Head(pieces)) \o AllWrites(Tail(pieces))

\* The writes up to (not including) the first one that raises IndexError.
RECURSIVE ApplyWrites(_, _)
ApplyWrites(grid, writes) ==
    IF writes = << >> THEN [grid |-> grid, raised |-> FALSE]
    ELSE LET w == Head(writes)
         IN  IF PyIndexOk(w[1], height) /\ PyIndexOk(w[2], width)
             THEN LET yy == PyIndex(w[1], height)
                      xx == PyIndex(w[2], width)
                  IN  Bind([grid EXCEPT ![yy][xx] = w[3]],
                           LAMBDA written : ApplyWrites(written, Tail(writes)))
             ELSE [grid |-> grid, raised |-> TRUE]

\* mutant of goal_piece_coordinates: every piece sets it, the last piece of
\* the list wins
RECURSIVE GoalCoordinates_AnyPiece(_, _)
GoalCoordinates_AnyPiece(pieces, acc) ==
    IF pieces = << >> THEN acc
    ELSE GoalCoordinates_AnyPiece(Tail(pieces),
                                  <<Head(pieces).coord_x, Head(pieces).coord_y>>)

\* goal_piece_coordinates: [0, 0] unless a goal piece sets it; the last goal
\* piece of the list wins.
RECURSIVE GoalCoordinates(_, _)
GoalCoordinates(pieces, acc) ==
    IF pieces = << >> THEN acc
    ELSE GoalCoordinates(Tail(pieces),
                         IF Head(pieces).is_goal
                         THEN <<Head(pieces).coord_x, Head(pieces).coord_y>>
                         ELSE acc)

construct_grid(pieces) ==
    Bind(AllWrites(pieces), LAMBDA writes : ApplyWrites(EmptyGrid, writes))

\* Board(pieces) ends in IndexError exactly when a write leaves the lists.
BoardRaises(pieces) == construct_grid(pieces).raised

Board(pieces) ==
    [pieces |-> pieces,
     grid |-> construct_grid(pieces).grid,
     goal_piece_coordinates |-> GoalCoordinates(pieces, <<0, 0>>)]

----------------------------------------------------------------------------
(* State *)

\* str(board.grid): the characters of the grid, row by row.
str(grid) == [k \in 1 .. width * height |->
                 grid[(k - 1) \div width][(k - 1) % width]]

CharCode(ch) ==
    CASE ch = "." -> 0 [] ch = "1" -> 1 [] ch = "2" -> 2 [] ch = "<" -> 3
      [] ch = ">" -> 4 [] ch = "^" -> 5 [] ch = "v" -> 6

\* The keyed digit of a character: a permutation of 0..6 for every key.
KeyedCode(ch, key) == ((key + 1) * CharCode(ch) + key) % 7

RECURSIVE Digits(_, _, _, _)
Digits(s, from, to, key) ==
    IF from > to THEN 0
    ELSE Digits(s, from, to - 1, key) * 7 + KeyedCode(s[to], key)

\* hash(board_str): Python's keyed string hash, an integer.  Modelled as an
\* injective function of the string for each key of the process (64-bit
\* collisions are not modelled); the integer is the pair <<high, low>> of
\* its halves, compared as an integer by IntLess.
hash(board_str, key) ==
    <<Digits(board_str, 1, 10, key), Digits(board_str, 11, 20, key)>>

IntLess(a, b) == a[1] < b[1] \/ (a[1] = b[1] /\ a[2] < b[2])

State(board, f, depth, parent) ==
    [board |-> board, f |-> f, depth |-> depth, parent |-> parent,
     id |-> hash(str(board.grid), seed)]

\* mutant of State.__lt__: the id alone decides
Less_ByIdOnly(self, other) == IntLess(self.id, other.id)

\* State.__lt__
Less(self, other) ==
    IF self.f = other.f THEN IntLess(self.id, other.id)
    ELSE self.f < other.f

----------------------------------------------------------------------------
(* Heuristic, goal test, move generator *)

Abs(n) == IF n < 0 THEN -n ELSE n

\* mutant of manhattan_distance: three times the distance
manhattan_distance_Tripled(board) ==
    LET position_1_x == board.goal_piece_coordinates[1]
        position_1_y == board.goal_piece_coordinates[2]
    IN  3 * (Abs(position_1_x - position_end_x) + Abs(position_1_y - position_end_y))

\* mutant of manhattan_distance: one more than the distance
manhattan_distance_PlusOne(board) ==
    LET position_1_x == board.goal_piece_coordinates[1]
        position_1_y == board.goal_piece_coordinates[2]
    IN  Abs(position_1_x - position_end_x) + Abs(position_1_y - position_end_y) + 1

manhattan_distance(board) ==
    LET position_1_x == board.goal_piece_coordinates[1]
        position_1_y == board.goal_piece_coordinates[2]
    IN  Abs(position_1_x - position_end_x) + Abs(position_1_y - position_end_y)

\* mutant of goal_test: the target of the comment in manhattan_distance
goal_test_Target11(state) ==
    states[state].board.goal_piece_coordinates = <<1, 1>>

\* mutant of goal_test: a state without parent is never a goal
goal_test_NeverRoot(state) ==
    /\ states[state].parent # None
    /\ states[state].board.goal_piece_coordinates = <<1, 3>>

\* `state` is a State reference in the operators below.
goal_test(state) == states[state].board.goal_piece_coordinates = <<1, 3>>

\* mutant of goal_test of hrd_starter.py: the test its comment keeps, on
\* grid[3][1] only
hrd_starter_goal_test_Row3(state) ==
    states[state].board.grid[3][1] = char_goal

\* goal_test of hrd_starter.py: the two middle cells of the last row
hrd_starter_goal_test(state) ==
    /\ states[state].board.grid[4][1] = char_goal
    /\ states[state].board.grid[4][2] = char_goal

\* manhattan_distance of hrd_starter.py, on two positions
hrd_starter_manhattan_distance(position1, position2) ==
    Abs(position1[1] - position2[1]) + Abs(position1[2] - position2[2])

\* the loops of get_heuristic from cell (i, j) on: the position (i, j) of
\* the first goal character in row-major order, << >> when there is none
RECURSIVE FirstGoalCell(_, _, _)
FirstGoalCell(curr_grid, i, j) ==
    IF i >= height THEN << >>
    ELSE IF j >= width THEN FirstGoalCell(curr_grid, i + 1, 0)
    ELSE IF curr_grid[i][j] = char_goal THEN <<i, j>>
    ELSE FirstGoalCell(curr_grid, i, j + 1)

\* mutant of get_heuristic: the target is (1, 3) as (row, column)
get_heuristic_Target13(state) ==
    Bind(FirstGoalCell(states[state].board.grid, 0, 0),
         LAMBDA cell :
             IF cell = << >> THEN -1
             ELSE hrd_starter_manhattan_distance(cell, <<1, 3>>))

\* get_heuristic of hrd_starter.py; -1 stands for the None that is returned
\* when the loops end without a goal character
get_heuristic(state) ==
    Bind(FirstGoalCell(states[state].board.grid, 0, 0),
         LAMBDA cell :
             IF cell = << >> THEN -1
             ELSE hrd_starter_manhattan_distance(cell, <<3, 1>>))

\* mutant of check_valid_spot: the spot is in the board, empty or not
check_valid_spot_InBoardOnly(state, x, y) ==
    0 <= x /\ x < width /\ 0 <= y /\ y < height

\* True when the spot is in the board and empty; None or False otherwise.
check_valid_spot(state, x, y) ==
    IF 0 <= x /\ x < width /\ 0 <= y /\ y < height
    THEN states[state].board.grid[y][x] = char_empty
    ELSE FALSE

\* mutant of the loop of get_new_state: the moved piece is taken out of the
\* list and appended to it
RECURSIVE MovePiece_MovedLast(_, _, _, _)
MovePiece_MovedLast(pieces, piece_x, piece_y, direction) ==
    IF pieces = << >> THEN << >>
    ELSE LET piece == Head(pieces)
         IN  IF piece.coord_x = piece_x /\ piece.coord_y = piece_y
             THEN Tail(pieces)
                  \o << IF direction = "left"
                           THEN [piece EXCEPT !.coord_x = @ - 1]
                        ELSE IF direction = "right"
                           THEN [piece EXCEPT !.coord_x = @ + 1]
                        ELSE IF direction = "up"
                           THEN [piece EXCEPT !.coord_y = @ - 1]
                        ELSE [piece EXCEPT !.coord_y = @ + 1] >>
             ELSE <<piece>>
                  \o MovePiece_MovedLast(Tail(pieces), piece_x, piece_y, direction)

\* The loop of get_new_state: the first piece anchored at (piece_x, piece_y)
\* is moved one cell; the others are left as they are.
RECURSIVE MovePiece(_, _, _, _)
MovePiece(pieces, piece_x, piece_y, direction) ==
    IF pieces = << >> THEN << >>
    ELSE LET piece == Head(pieces)
         IN  IF piece.coord_x = piece_x /\ piece.coord_y = piece_y
             THEN << IF direction = "left"
                        THEN [piece EXCEPT !.coord_x = @ - 1]
                     ELSE IF direction = "right"
                        THEN [piece EXCEPT !.coord_x = @ + 1]
                     ELSE IF direction = "up"
                        THEN [piece EXCEPT !.coord_y = @ - 1]
                     ELSE [piece EXCEPT !.coord_y = @ + 1] >>
                  \o Tail(pieces)
             ELSE <<piece>> \o MovePiece(Tail(pieces), piece_x, piece_y, direction)

\* mutant of deepcopy: new_board names the board it was given, not a copy
deepcopy_SameObject(board) ==
    [original |-> board, copy |-> board, new_board |-> "original"]

\* new_board = deepcopy(curr_board): the two Board objects there are after
\* the statement, and the one that new_board names
deepcopy(board) ==
    [original |-> board, copy |-> board, new_board |-> "copy"]

\* The Board objects after the loop of get_new_state: a piece of
\* new_board.pieces was moved in place (the grid of new_board is not redone).
MovedObjects(board, piece_x, piece_y, direction) ==
    LET objects == deepcopy(board)
    IN  [objects EXCEPT ![objects.new_board].pieces =
                            MovePiece(@, piece_x, piece_y, direction)]

\* mutant of get_new_state: the new state's parent is the parent of `state`
get_new_state_ParentOfParent(state, piece_x, piece_y, direction) ==
    LET curr_board == states[state].board
        updated_depth == states[state].depth + 1
    IN  Bind(MovedObjects(curr_board, piece_x, piece_y, direction),
             LAMBDA objects :
        Bind(Board(objects[objects.new_board].pieces),
             LAMBDA test_board :
        LET f_value == updated_depth + manhattan_distance(test_board)
        IN  State(test_board, f_value, updated_depth, states[state].parent)))

\* mutant of get_new_state: the new state has the depth of `state`
get_new_state_SameDepth(state, piece_x, piece_y, direction) ==
    LET curr_board == states[state].board
        updated_depth == states[state].depth
    IN  Bind(MovedObjects(curr_board, piece_x, piece_y, direction),
             LAMBDA objects :
        Bind(Board(objects[objects.new_board].pieces),
             LAMBDA test_board :
        LET f_value == updated_depth + manhattan_distance(test_board)
        IN  State(test_board, f_value, updated_depth, state)))

\* mutant of get_new_state: the new state takes new_board as it is after
\* the move, without Board(new_board.pieces)
get_new_state_NotRebuilt(state, piece_x, piece_y, direction) ==
    LET curr_board == states[state].board
        updated_depth == states[state].depth + 1
    IN  Bind(MovedObjects(curr_board, piece_x, piece_y, direction),
             LAMBDA objects :
        Bind(objects[objects.new_board],
             LAMBDA test_board :
        LET f_value == updated_depth + manhattan_distance(test_board)
        IN  State(test_board, f_value, updated_depth, state)))

get_new_state(state, piece_x, piece_y, direction) ==
    LET curr_board == states[state].board
        updated_depth == states[state].depth + 1
    IN  Bind(MovedObjects(curr_board, piece_x, piece_y, direction),
             LAMBDA objects :
        Bind(Board(objects[objects.new_board].pieces),
             LAMBDA test_board :
        LET f_value == updated_depth + manhattan_distance(test_board)
        IN  State(test_board, f_value, updated_depth, state)))

\* mutant of the checks of generate_successors: a 1x2 piece is checked like
\* a 1x1 piece (one spot next to its anchor)
CheckedSpots_AsSingle(piece, direction) ==
    LET x == piece.coord_x
        y == piece.coord_y
    IN  IF piece.is_goal THEN
            CASE direction = "up"    -> << <<x, y - 1>>, <<x + 1, y - 1>> >>
              [] direction = "down"  -> << <<x, y + 2>>, <<x + 1, y + 2>> >>
              [] direction = "left"  -> << <<x - 1, y>>, <<x - 1, y + 1>> >>
              [] direction = "right" -> << <<x + 2, y>>, <<x + 2, y + 1>> >>
        ELSE
            CASE direction = "up"    -> << <<x, y - 1>> >>
              [] direction = "down"  -> << <<x, y + 1>> >>
              [] direction = "left"  -> << <<x - 1, y>> >>
              [] direction = "right" -> << <<x + 1, y>> >>

\* The spots whose check_valid_spot generate_successors requires before it
\* moves `piece` in `direction`.
CheckedSpots(piece, direction) ==
    LET x == piece.coord_x
        y == piece.coord_y
    IN  IF piece.is_goal THEN
            CASE direction = "up"    -> << <<x, y - 1>>, <<x + 1, y - 1>> >>
              [] direction = "down"  -> << <<x, y + 2>>, <<x + 1, y + 2>> >>
              [] direction = "left"  -> << <<x - 1, y>>, <<x - 1, y + 1>> >>
              [] direction = "right" -> << <<x + 2, y>>, <<x + 2, y + 1>> >>
        ELSE IF piece.orientation = "h" THEN
            CASE direction = "up"    -> << <<x, y - 1>>, <<x + 1, y - 1>> >>
              [] direction = "down"  -> << <<x, y + 1>>, <<x + 1, y + 1>> >>
              [] direction = "left"  -> << <<x - 1, y>> >>
              [] direction = "right" -> << <<x + 2, y>> >>
        ELSE IF piece.orientation = "v" THEN
            CASE direction = "up"    -> << <<x, y - 1>> >>
              [] direction = "down"  -> << <<x, y + 2>> >>
              [] direction = "left"  -> << <<x - 1, y>>, <<x - 1, y + 1>> >>
              [] direction = "right" -> << <<x + 1, y>>, <<x + 1, y + 1>> >>
        ELSE
            CASE direction = "up"    -> << <<x, y - 1>> >>
              [] direction = "down"  -> << <<x, y + 1>> >>
              [] direction = "left"  -> << <<x - 1, y>> >>
              [] direction = "right" -> << <<x + 1, y>> >>

Directions == <<"up", "down", "left", "right">>

\* the condition of one if block of generate_successors
MoveAllowed(state, piece, direction) ==
    LET spots == CheckedSpots(piece, direction)
    IN  \A k \in DOMAIN spots : check_valid_spot(state, spots[k][1], spots[k][2])

\* mutant of one if block of generate_successors: the new state is appended
\* twice
TryMove_AppendedTwice(state, piece, direction) ==
    IF MoveAllowed(state, piece, direction)
    THEN << get_new_state(state, piece.coord_x, piece.coord_y, direction),
            get_new_state(state, piece.coord_x, piece.coord_y, direction) >>
    ELSE << >>

TryMove(state, piece, direction) ==
    IF MoveAllowed(state, piece, direction)
    THEN << get_new_state(state, piece.coord_x, piece.coord_y, direction) >>
    ELSE << >>

RECURSIVE SuccessorsFrom(_, _)
SuccessorsFrom(state, i) ==
    LET curr_pieces == states[state].board.pieces
    IN  IF i > Len(curr_pieces) THEN << >>
        ELSE TryMove(state, curr_pieces[i], Directions[1])
             \o TryMove(state, curr_pieces[i], Directions[2])
             \o TryMove(state, curr_pieces[i], Directions[3])
             \o TryMove(state, curr_pieces[i], Directions[4])
             \o SuccessorsFrom(state, i + 1)

generate_successors(state) == SuccessorsFrom(state, 1)

\* The calls get_new_state(state, piece.coord_x, piece.coord_y, direction)
\* that generate_successors(state) makes, in order, as <<x, y, direction>>.
CallsOf(state) ==
    LET curr_pieces == states[state].board.pieces
        all == [n \in 1 .. 4 * Len(curr_pieces) |->
                   <<curr_pieces[(n + 3) \div 4], Directions[((n - 1) % 4) + 1]>>]
    IN  Bind(SelectSeq(all, LAMBDA c : MoveAllowed(state, c[1], c[2])),
             LAMBDA made :
        [n \in 1 .. Len(made) |->
            <<made[n][1].coord_x, made[n][1].coord_y, made[n][2]>>])

\* state.board after these calls: what each call does to the Board object
\* it was given as curr_board
RECURSIVE BoardAfterCalls(_, _)
BoardAfterCalls(board, calls) ==
    IF calls = << >> THEN board
    ELSE Bind(MovedObjects(board, calls[1][1], calls[1][2], calls[1][3]).original,
              LAMBDA after : BoardAfterCalls(after, Tail(calls)))

\* the State objects after generate_successors(state): those of `mem`, and
\* the successors appended
AfterSuccessors(mem, state) ==
    Bind(CallsOf(state),
         LAMBDA calls : [mem EXCEPT ![state].board = BoardAfterCalls(@, calls)])

----------------------------------------------------------------------------
(* heapq on a list of State references, ordered by State.__lt__ *)

Lt(mem, a, b) == Less(mem[a], mem[b])

\* _siftdown(heap, startpos, pos) with newitem carried along; 0-based
\* positions, so the item at pos is heap[pos + 1] here.  `mem` is the arena
\* the references point into.
RECURSIVE siftdown(_, _, _, _, _)
siftdown(mem, heap, startpos, pos, newitem) ==
    IF pos > startpos
    THEN LET parentpos == (pos - 1) \div 2
             parent == heap[parentpos + 1]
         IN  IF Lt(mem, newitem, parent)
             THEN Bind(<<[heap EXCEPT ![pos + 1] = parent], parentpos>>,
                       LAMBDA up : siftdown(mem, up[1], startpos, up[2], newitem))
             ELSE [heap EXCEPT ![pos + 1] = newitem]
    ELSE [heap EXCEPT ![pos + 1] = newitem]

\* _siftup(heap, pos): the smaller child moves up until a leaf is reached,
\* then newitem is sifted down from the leaf.
RECURSIVE siftup(_, _, _, _, _)
siftup(mem, heap, startpos, pos, newitem) ==
    LET endpos == Len(heap)
        childpos == 2 * pos + 1
        rightpos == childpos + 1
        pick == IF rightpos < endpos
                   /\ ~ Lt(mem, heap[childpos + 1], heap[rightpos + 1])
                THEN rightpos ELSE childpos
    IN  IF childpos < endpos
        THEN Bind(<<[heap EXCEPT ![pos + 1] = heap[pick + 1]], pick>>,
                  LAMBDA down : siftup(mem, down[1], startpos, down[2], newitem))
        ELSE siftdown(mem, heap, startpos, pos, newitem)

heappush(mem, heap, item) ==
    siftdown(mem, Append(heap, item), 0, Len(heap), item)

\* mutant of heappop: list.pop(), the last item of the list
heappop_LastItem(mem, heap) ==
    <<heap[Len(heap)], SubSeq(heap, 1, Len(heap) - 1)>>

\* heappop(heap): <<the smallest item, the heap that is left>>.
heappop(mem, heap) ==
    LET lastelt == heap[Len(heap)]
        rest == SubSeq(heap, 1, Len(heap) - 1)
    IN  IF rest # << >>
        THEN <<heap[1],
               siftup(mem, [rest EXCEPT ![1] = lastelt], 0, 0, lastelt)>>
        ELSE <<lastelt, rest>>

\* for s in successors: heappush(frontier, s), the items being the
\* references from..Len(mem)
RECURSIVE PushAll(_, _, _)
PushAll(mem, heap, from) ==
    IF from > Len(mem) THEN heap
    ELSE Bind(heappush(mem, heap, from),
              LAMBDA pushed : PushAll(mem, pushed, from + 1))

----------------------------------------------------------------------------
(* The initial piece lists, as read_from_file builds the pieces *)

Goal2x2(x, y) == Piece(TRUE, FALSE, x, y, "None")
Single1x1(x, y) == Piece(FALSE, TRUE, x, y, "None")
Horizontal1x2(x, y) == Piece(FALSE, FALSE, x, y, "h")
Vertical1x2(x, y) == Piece(FALSE, FALSE, x, y, "v")

\* the piece read_from_file appends for the character ch found at (x, y)
PieceOfChar(ch, x, y) ==
    IF ch = "^" THEN Vertical1x2(x, y)
    ELSE IF ch = "<" THEN Horizontal1x2(x, y)
    ELSE IF ch = char_single THEN Single1x1(x, y)
    ELSE Goal2x2(x, y)

AllCells == {<<x, y>> : x \in 0 .. width - 1, y \in 0 .. height - 1}

\* The cells a piece occupies, by its kind.
Footprint(piece) ==
    LET x == piece.coord_x
        y == piece.coord_y
    IN  IF piece.is_goal THEN {<<x, y>>, <<x + 1, y>>, <<x, y + 1>>, <<x + 1, y + 1>>}
        ELSE IF piece.is_single THEN {<<x, y>>}
        ELSE IF piece.orientation = "h" THEN {<<x, y>>, <<x + 1, y>>}
        ELSE {<<x, y>>, <<x, y + 1>>}

\* The board invariant: one goal piece, every piece inside the grid, no cell
\* occupied twice.
ValidPieces(pieces) ==
    /\ Cardinality({i \in DOMAIN pieces : pieces[i].is_goal}) = 1
    /\ \A i \in DOMAIN pieces : Footprint(pieces[i]) \subseteq AllCells
    /\ \A i, j \in DOMAIN pieces :
           i # j => Footprint(pieces[i]) \cap Footprint(pieces[j]) = {}

\* read_from_file visits the characters row by row, left to right, and
\* appends a piece where it finds a piece's anchor character: the piece list
\* is in row-major order of the anchors.
RECURSIVE ScanFrom(_, _)
ScanFrom(c, pieceSet) ==
    IF c >= width * height THEN << >>
    ELSE LET here == {p \in pieceSet :
                         p.coord_x = c % width /\ p.coord_y = c \div width}
         IN  (IF here = {} THEN << >> ELSE << CHOOSE p \in here : TRUE >>)
             \o ScanFrom(c + 1, pieceSet)

ReadPieces(pieceSet) == ScanFrom(0, pieceSet)

\* the goal piece alone, anywhere
GoalOnlyBoards ==
    {ReadPieces({Goal2x2(x, y)}) : x \in 0 .. width - 2, y \in 0 .. height - 2}

\* the goal piece at (1, 0) and one more piece of any kind
SparseBoards ==
    {pieces \in
        {ReadPieces({Goal2x2(1, 0), PieceOfChar(ch, c % width, c \div width)}) :
            c \in 0 .. MaxExtraCell, ch \in {char_single, "<", "^"}} :
        ValidPieces(pieces)}

\* the goal piece in column 1 and 1x1 pieces on every other cell, or on every
\* other cell but one
PackedBoards ==
    UNION {
        {ReadPieces({Goal2x2(1, y)}
                    \cup {Single1x1(c[1], c[2]) :
                             c \in (AllCells \ Footprint(Goal2x2(1, y))) \ hole}) :
            hole \in {{}} \cup {{c} : c \in AllCells \ Footprint(Goal2x2(1, y))}} :
        y \in 0 .. height - 2}

InitPieces == GoalOnlyBoards \cup SparseBoards \cup PackedBoards

----------------------------------------------------------------------------
(* The main block and the two searches *)

\* there is no second search
NoSearch ==
    [pc |-> "absent", algo |-> "", states |-> << >>, frontier |-> << >>,
     visited |-> {}, solution |-> None, expanded |-> << >>]

\* lines 506-508: board = read_from_file(...); first_state = State(board, 0, 0)
Init ==
    /\ pc = "main"
    /\ algo \in {"astar", "dfs"}
    /\ seed \in 0 .. NumSeeds - 1
    /\ in_pieces \in InitPieces
    /\ states = << State(Board(in_pieces), 0, 0, None) >>
    /\ frontier = << >>
    /\ visited = {}
    /\ solution = None
    /\ expanded = << >>
    /\ output = << >>
    /\ previous = << >>
    /\ suspended = NoSearch
    /\ alone = << >>

first_state == 1

\* solution = A_star(first_state): frontier = []; heappush; visited = set()
StartAStar ==
    /\ pc = "main" /\ algo = "astar"
    /\ frontier' = heappush(states, << >>, first_state)
    /\ visited' = {}
    /\ pc' = "astar"
    /\ UNCHANGED <<algo, seed, in_pieces, states, solution, expanded, output,
                   previous, suspended, alone>>

\* solution = DFS(first_state): frontier = [state]; visited = set()
StartDFS ==
    /\ pc = "main" /\ algo = "dfs"
    /\ frontier' = << first_state >>
    /\ visited' = {}
    /\ pc' = "dfs"
    /\ UNCHANGED <<algo, seed, in_pieces, states, solution, expanded, output,
                   previous, suspended, alone>>

\* One iteration of the while loop of DFS: the popped state is discarded
\* (already visited), returned (goal) or expanded.
DFSTop == frontier[Len(frontier)]

\* mutant of frontier.pop(): the last item is read and left on the stack
DFSRest_NotRemoved == frontier

DFSRest == SubSeq(frontier, 1, Len(frontier) - 1)

\* mutant of the visited test: never true
AlreadyVisited_Never(state) == FALSE

\* if curr_state.id in visited
AlreadyVisited(state) == states[state].id \in visited

DFSSkip ==
    /\ pc = "dfs" /\ frontier # << >>
    /\ AlreadyVisited(DFSTop)
    /\ frontier' = DFSRest
    /\ UNCHANGED <<pc, algo, seed, in_pieces, states, visited, solution,
                   expanded, output, previous, suspended, alone>>

DFSGoal ==
    /\ pc = "dfs" /\ frontier # << >>
    /\ ~ AlreadyVisited(DFSTop)
    /\ goal_test(DFSTop)
    /\ frontier' = DFSRest
    /\ solution' = DFSTop
    /\ pc' = "write"
    /\ UNCHANGED <<algo, seed, in_pieces, states, visited, expanded, output,
                   previous, suspended, alone>>

\* mutant of the filter: the successors whose id is in `seen`
NotVisited_Inverted(successors, seen) ==
    SelectSeq(successors, LAMBDA s : s.id \in seen)

\* The successors whose id is not in `seen`, in order.
NotVisited(successors, seen) ==
    SelectSeq(successors, LAMBDA s : s.id \notin seen)

DFSExpand ==
    /\ pc = "dfs" /\ frontier # << >>
    /\ ~ AlreadyVisited(DFSTop)
    /\ ~ goal_test(DFSTop)
    /\ visited' = visited \cup {states[DFSTop].id}
    /\ expanded' = Append(expanded, states[DFSTop].id)
    /\ \E successors \in {generate_successors(DFSTop)} :
           LET kept == NotVisited(successors, visited')
           IN  /\ states' = AfterSuccessors(states, DFSTop) \o kept
               /\ frontier' = DFSRest \o [k \in 1 .. Len(kept) |-> Len(states) + k]
    /\ UNCHANGED <<pc, algo, seed, in_pieces, solution, output, previous,
                   suspended, alone>>

DFSNone ==
    /\ pc = "dfs" /\ frontier = << >>
    /\ solution' = None
    /\ pc' = "write"
    /\ UNCHANGED <<algo, seed, in_pieces, states, frontier, visited,
                   expanded, output, previous, suspended, alone>>

\* One iteration of the while loop of A_star.
AStarTop == heappop(states, frontier)[1]
AStarRest == heappop(states, frontier)[2]

AStarSkip ==
    /\ pc = "astar" /\ frontier # << >>
    /\ \E popped \in {heappop(states, frontier)} :
           /\ AlreadyVisited(popped[1])
           /\ frontier' = popped[2]
    /\ UNCHANGED <<pc, algo, seed, in_pieces, states, visited, solution,
                   expanded, output, previous, suspended, alone>>

AStarGoal ==
    /\ pc = "astar" /\ frontier # << >>
    /\ \E popped \in {heappop(states, frontier)} :
           /\ ~ AlreadyVisited(popped[1])
           /\ visited' = visited \cup {states[popped[1]].id}
           /\ goal_test(popped[1])
           /\ frontier' = popped[2]
           /\ solution' = popped[1]
    /\ pc' = "write"
    /\ UNCHANGED <<algo, seed, in_pieces, states, expanded, output, previous,
                   suspended, alone>>

AStarExpand ==
    /\ pc = "astar" /\ frontier # << >>
    /\ \E popped \in {heappop(states, frontier)} :
           /\ ~ AlreadyVisited(popped[1])
           /\ visited' = visited \cup {states[popped[1]].id}
           /\ ~ goal_test(popped[1])
           /\ expanded' = Append(expanded, states[popped[1]].id)
           /\ states' = AfterSuccessors(states, popped[1])
                          \o generate_successors(popped[1])
           /\ frontier' = PushAll(states', popped[2], Len(states) + 1)
    /\ UNCHANGED <<pc, algo, seed, in_pieces, solution, output, previous,
                   suspended, alone>>

AStarNone ==
    /\ pc = "astar" /\ frontier = << >>
    /\ solution' = None
    /\ pc' = "write"
    /\ UNCHANGED <<algo, seed, in_pieces, states, frontier, visited,
                   expanded, output, previous, suspended, alone>>

\* write_to_file(first_state, filename, solution): the initial board, then
\* the boards of solution's parent chain below the root, root side first.
\* With solution = None the first `solution.parent` raises AttributeError
\* after the initial board was written.
\* mutant of all_states.reverse(): the states are left in the order the
\* parent links were walked, solution first
RECURSIVE ParentChain_NotReversed(_, _)
ParentChain_NotReversed(mem, s) ==
    IF mem[s].parent = None THEN << >>
    ELSE <<s>> \o ParentChain_NotReversed(mem, mem[s].parent)

RECURSIVE ParentChain(_, _)
ParentChain(mem, s) ==
    IF mem[s].parent = None THEN << >>
    ELSE Append(ParentChain(mem, mem[s].parent), s)

WriteSolution ==
    /\ pc = "write" /\ solution # None
    /\ output' = << states[first_state].board.grid >>
                 \o [k \in 1 .. Len(ParentChain(states, solution)) |->
                        states[ParentChain(states, solution)[k]].board.grid]
    /\ pc' = "done"
    /\ UNCHANGED <<algo, seed, in_pieces, states, frontier, visited,
                   solution, expanded, previous, suspended, alone>>

WriteNone ==
    /\ pc = "write" /\ solution = None
    /\ output' = << states[first_state].board.grid >>
    /\ pc' = "AttributeError"
    /\ UNCHANGED <<algo, seed, in_pieces, states, frontier, visited,
                   solution, expanded, previous, suspended, alone>>

\* Board(pieces) on any piece list, then first_state (lines 183, 508): the
\* construction ends in IndexError when a grid assignment leaves the lists,
\* and yields a Board otherwise.
ConstructBoard ==
    /\ pc = "construct"
    /\ IF BoardRaises(in_pieces)
       THEN /\ pc' = "IndexError"
            /\ UNCHANGED states
       ELSE /\ pc' = "main"
            /\ states' = << State(Board(in_pieces), 0, 0, None) >>
    /\ UNCHANGED <<algo, seed, in_pieces, frontier, visited, solution,
                   expanded, output, previous, suspended, alone>>

Next ==
    \/ StartAStar \/ StartDFS
    \/ DFSSkip \/ DFSGoal \/ DFSExpand \/ DFSNone
    \/ AStarSkip \/ AStarGoal \/ AStarExpand \/ AStarNone
    \/ WriteSolution \/ WriteNone

Spec == Init /\ [][Next]_vars

\* The program is run a second time on the same input file with the same
\* --algo, in a new process: the string-hash key is drawn anew and the
\* former run's output file is kept for comparison.
RunAgain ==
    /\ pc \in {"done", "AttributeError"}
    /\ previous = << >>
    /\ previous' = output
    /\ seed' \in 0 .. NumSeeds - 1
    /\ LET root == State(Board(in_pieces), 0, 0, None)
       IN  states' = << [root EXCEPT !.id = hash(str(root.board.grid), seed')] >>
    /\ pc' = "main"
    /\ frontier' = << >>
    /\ visited' = {}
    /\ solution' = None
    /\ expanded' = << >>
    /\ output' = << >>
    /\ UNCHANGED <<algo, in_pieces, suspended, alone>>

NextTwice == Next \/ RunAgain

SpecTwice == Init /\ [][NextTwice]_vars

FairSpec == Spec /\ WF_vars(Next)

\* The program under one string-hash key, for what does not depend on the
\* key: the boards, the moves, the heuristic and the goal test.
InitOneKey ==
    /\ pc = "main"
    /\ algo \in {"astar", "dfs"}
    /\ seed = 0
    /\ in_pieces \in InitPieces
    /\ states = << State(Board(in_pieces), 0, 0, None) >>
    /\ frontier = << >>
    /\ visited = {}
    /\ solution = None
    /\ expanded = << >>
    /\ output = << >>
    /\ previous = << >>
    /\ suspended = NoSearch
    /\ alone = << >>

SpecOneKey == InitOneKey /\ [][Next]_vars

\* Board construction on piece lists that need not be valid: one piece of
\* any kind anchored anywhere from one cell before the grid to one cell
\* after it, alone or after a goal piece at (1, 0).
AnyPiece ==
    {PieceOfChar(ch, x, y) :
        ch \in {char_goal, char_single, "<", "^"},
        x \in -1 .. width, y \in -1 .. height}

BoardInputs ==
    {<< p >> : p \in AnyPiece} \cup {<< Goal2x2(1, 0), p >> : p \in AnyPiece}

InitBoard ==
    /\ pc = "construct"
    /\ algo \in {"astar", "dfs"}
    /\ seed = 0
    /\ in_pieces \in BoardInputs
    /\ states = << >>
    /\ frontier = << >>
    /\ visited = {}
    /\ solution = None
    /\ expanded = << >>
    /\ output = << >>
    /\ previous = << >>
    /\ suspended = NoSearch
    /\ alone = << >>

NextBoard == ConstructBoard \/ StartAStar \/ StartDFS

SpecBoard == InitBoard /\ [][NextBoard]_vars

----------------------------------------------------------------------------
(* Reference definitions the claims are stated with: the puzzle's rules on  *)
(* piece lists, independent of the grid and of the search                   *)

\* the piece one cell further in direction d
Slid(piece, d) ==
    CASE d = "up"    -> [piece EXCEPT !.coord_y = @ - 1]
      [] d = "down"  -> [piece EXCEPT !.coord_y = @ + 1]
      [] d = "left"  -> [piece EXCEPT !.coord_x = @ - 1]
      [] d = "right" -> [piece EXCEPT !.coord_x = @ + 1]

DirectionSet == {"up", "down", "left", "right"}

Occupied(pieceSet) == UNION {Footprint(p) : p \in pieceSet}

\* piece p of the board pieceSet may slide one cell in direction d: every
\* cell of its new footprint that it does not occupy is in the grid and empty
LegalSlide(pieceSet, p, d) ==
    LET fresh == Footprint(Slid(p, d)) \ Footprint(p)
    IN  fresh \subseteq AllCells /\ fresh \cap Occupied(pieceSet) = {}

\* the piece lists one legal slide away from `pieces`
PieceSet(pieces) == {pieces[k] : k \in DOMAIN pieces}

SlidLists(pieces) ==
    LET pieceSet == PieceSet(pieces)
    IN  {[pieces EXCEPT ![m[1]] = Slid(pieces[m[1]], m[2])] :
            m \in {m \in (DOMAIN pieces) \X DirectionSet :
                      LegalSlide(pieceSet, pieces[m[1]], m[2])}}

\* the boards (as sets of pieces) one legal slide away from the board
SlidBoards(pieceSet) ==
    {(pieceSet \ {m[1]}) \cup {Slid(m[1], m[2])} :
        m \in {m \in pieceSet \X DirectionSet : LegalSlide(pieceSet, m[1], m[2])}}

GoalAt(pieceSet, x, y) ==
    \E p \in pieceSet : p.is_goal /\ p.coord_x = x /\ p.coord_y = y

\* breadth-first search: the least number of legal slides from a board of
\* `layer` (the boards at distance d) to a board with the goal piece at
\* (1, 3); -1 when there is none
RECURSIVE BFS(_, _, _)
BFS(layer, seen, d) ==
    IF \E b \in layer : GoalAt(b, 1, 3) THEN d
    ELSE LET next == UNION {SlidBoards(b) : b \in layer} \ seen
         IN  IF next = {} THEN -1 ELSE BFS(next, seen \cup next, d + 1)

ShortestSolution(pieces) == BFS({PieceSet(pieces)}, {PieceSet(pieces)}, 0)

Searching == pc \in {"dfs", "astar"}
Returned == pc \in {"write", "done", "AttributeError"}
\* the state the next iteration pops
Top == IF pc = "dfs" THEN DFSTop ELSE AStarTop

\* the references from s up to the root, s first
RECURSIVE Ancestry(_, _)
Ancestry(mem, s) ==
    IF s = None THEN << >> ELSE <<s>> \o Ancestry(mem, mem[s].parent)

\* the boards (as sets of pieces) reachable from the boards of `layer` by
\* legal slides, `seen` being those found so far
RECURSIVE Closure(_, _)
Closure(layer, seen) ==
    LET next == UNION {SlidBoards(b) : b \in layer} \ seen
    IN  IF next = {} THEN seen ELSE Closure(next, seen \cup next)

ReachableBoards(pieces) == Closure({PieceSet(pieces)}, {PieceSet(pieces)})

\* the legal-slide relation on a set of boards, as a function
SlideMap(boards) == [b \in boards |-> SlidBoards(b)]

\* <<b, n>> for every board b of DOMAIN succ from which a board of `layer`
\* is n - d slides away and none is nearer; `layer` holds the boards at
\* distance d from the goal boards, `seen` those at distance <= d
RECURSIVE GoalDistances(_, _, _, _)
GoalDistances(succ, layer, seen, d) ==
    {<<b, d>> : b \in layer}
    \cup LET next == {b \in DOMAIN succ \ seen : succ[b] \cap layer # {}}
         IN  IF next = {} THEN {}
             ELSE GoalDistances(succ, next, seen \cup next, d + 1)

\* <<b, n>> for every board b reachable from `pieces` from which the goal
\* position can be reached, n being the least number of legal slides from
\* b to a board with the goal piece at (1, 3)
TrueCosts(pieces) ==
    LET succ == SlideMap(ReachableBoards(pieces))
        goals == {b \in DOMAIN succ : GoalAt(b, 1, 3)}
    IN  GoalDistances(succ, goals, goals, 0)

\* the least number of legal slides from a board of `layer` (the boards at
\* distance d) to the board `target`; -1 when it cannot be reached
RECURSIVE SlidesTo(_, _, _, _)
SlidesTo(layer, seen, target, d) ==
    IF target \in layer THEN d
    ELSE Bind(UNION {SlidBoards(b) : b \in layer} \ seen,
              LAMBDA next :
                  IF next = {} THEN -1
                  ELSE SlidesTo(next, seen \cup next, target, d + 1))

\* the least number of legal slides from the board `pieces` to `target`
SlideDistance(pieces, target) ==
    SlidesTo({PieceSet(pieces)}, {PieceSet(pieces)}, PieceSet(target), 0)

----------------------------------------------------------------------------
(* Two searches in one process: DFS(first_state) and A_star(first_state)    *)
(* on the same root State object, their loop iterations interleaved in any  *)
(* order.  Each search has its own locals (frontier, visited, the States it *)
(* created); the root object is the one object both refer to.  The search   *)
(* that is running has its locals in the variables of the module, the other *)
(* has them in `suspended`.  Before the two are started together, the       *)
(* search named by algo has run alone and its result was kept in `alone`.   *)

\* what a search returned, by content: the returned State and its ancestors,
\* root first; << >> for None
ResultValue(mem, s) ==
    Bind(Ancestry(mem, s),
         LAMBDA chain :
             [k \in 1 .. Len(chain) |->
                 [board |-> mem[chain[Len(chain) + 1 - k]].board,
                  f |-> mem[chain[Len(chain) + 1 - k]].f,
                  depth |-> mem[chain[Len(chain) + 1 - k]].depth,
                  id |-> mem[chain[Len(chain) + 1 - k]].id]])

OtherAlgo(a) == IF a = "dfs" THEN "astar" ELSE "dfs"

\* the search that ran alone has returned; both searches are then called on
\* a root State built anew
StartRace ==
    /\ pc = "write" /\ suspended = NoSearch /\ alone = << >>
    /\ alone' = << [algo |-> algo, result |-> ResultValue(states, solution)] >>
    /\ \E root \in {State(Board(in_pieces), 0, 0, None)} :
           /\ states' = << root >>
           /\ suspended' = [pc |-> "main", algo |-> OtherAlgo(algo),
                            states |-> << root >>, frontier |-> << >>,
                            visited |-> {}, solution |-> None,
                            expanded |-> << >>]
    /\ pc' = "main"
    /\ frontier' = << >>
    /\ visited' = {}
    /\ solution' = None
    /\ expanded' = << >>
    /\ UNCHANGED <<algo, seed, in_pieces, output, previous>>

\* the scheduler lets the other search run: the locals change places, the
\* root object is the same for both
Switch ==
    /\ suspended.pc \notin {"absent", "write"}
    /\ pc' = suspended.pc
    /\ algo' = suspended.algo
    /\ states' = [suspended.states EXCEPT ![first_state] = states[first_state]]
    /\ frontier' = suspended.frontier
    /\ visited' = suspended.visited
    /\ solution' = suspended.solution
    /\ expanded' = suspended.expanded
    /\ suspended' = [pc |-> pc, algo |-> algo, states |-> states,
                     frontier |-> frontier, visited |-> visited,
                     solution |-> solution, expanded |-> expanded]
    /\ UNCHANGED <<seed, in_pieces, output, previous, alone>>

NextRace ==
    \/ StartAStar \/ StartDFS
    \/ DFSSkip \/ DFSGoal \/ DFSExpand \/ DFSNone
    \/ AStarSkip \/ AStarGoal \/ AStarExpand \/ AStarNone
    \/ StartRace \/ Switch

\* the initial boards of the two searches run together: the goal piece
\* alone, the packed boards whose empty cell (if any) is numbered at most
\* MaxRaceCell, and the sparse boards whose second piece is anchored at a
\* cell numbered at most MaxRaceCell
RaceCells == {c \in AllCells : c[2] * width + c[1] <= MaxRaceCell}

RaceBoards ==
    GoalOnlyBoards
    \cup {b \in PackedBoards :
             AllCells \ Occupied(PieceSet(b)) \subseteq RaceCells}
    \cup {b \in SparseBoards :
             \A p \in PieceSet(b) :
                 p.is_goal \/ <<p.coord_x, p.coord_y>> \in RaceCells}

InitRace ==
    /\ pc = "main"
    /\ algo \in {"astar", "dfs"}
    /\ seed \in 0 .. NumSeeds - 1
    /\ in_pieces \in RaceBoards
    /\ states = << State(Board(in_pieces), 0, 0, None) >>
    /\ frontier = << >>
    /\ visited = {}
    /\ solution = None
    /\ expanded = << >>
    /\ output = << >>
    /\ previous = << >>
    /\ suspended = NoSearch
    /\ alone = << >>

SpecRace == InitRace /\ [][NextRace]_vars

\* the character a cell of a piece is shown with: the piece's kind and the
\* cell's place in the piece
RoleChar(piece, x, y) ==
    IF piece.is_goal THEN char_goal
    ELSE IF piece.is_single THEN char_single
    ELSE IF piece.orientation = "h"
    THEN (IF x = piece.coord_x THEN "<" ELSE ">")
    ELSE (IF y = piece.coord_y THEN "^" ELSE "v")

\* the grid as a view of the pieces: every cell is empty or shows the piece
\* that occupies it
DerivedGrid(pieces) ==
    [y \in 0 .. height - 1 |->
        [x \in 0 .. width - 1 |->
            LET on == {i \in DOMAIN pieces : <<x, y>> \in Footprint(pieces[i])}
            IN  IF on = {} THEN char_empty
                ELSE RoleChar(pieces[CHOOSE i \in on : TRUE], x, y)]]

\* the multiset of the (kind, x, y) of a piece list: how often each piece
\* occurs in it
PieceMultiset(pieces) ==
    [p \in PieceSet(pieces) |->
        Cardinality({i \in DOMAIN pieces : pieces[i] = p})]

----------------------------------------------------------------------------
(* C1: A* optimality.  When A_star has returned on an initial board from   *)
(* which a board with the goal piece at (1, 3) can be reached, it returned *)
(* a state whose goal piece is at (1, 3) and whose depth is the length of  *)
(* the shortest sequence of legal slides to such a board (breadth-first).  *)
C1_AStarOptimal ==
    (algo = "astar" /\ Returned /\ ShortestSolution(in_pieces) >= 0) =>
        /\ solution # None
        /\ GoalAt(PieceSet(states[solution].board.pieces), 1, 3)
        /\ states[solution].depth = ShortestSolution(in_pieces)

\* A_star returned a solution of several moves that needed a detour: the
\* shortest solution is longer than the goal piece's distance
C1_Witness ==
    /\ algo = "astar" /\ Returned /\ solution # None
    /\ states[solution].depth >= 4
    /\ states[solution].depth > manhattan_distance(states[first_state].board)

(* C2: board invariant preservation.  Every board generate_successors      *)
(* returns for a state the search holds has exactly one goal piece, every  *)
(* piece inside the grid and no cell occupied twice.                       *)
C2_SuccessorsValid ==
    (Searching /\ frontier # << >>) =>
        LET successors == generate_successors(Top)
        IN  \A k \in DOMAIN successors : ValidPieces(successors[k].board.pieces)

\* a state with several successors, reached by moves, is about to be popped
C2_Witness ==
    /\ Searching /\ frontier # << >>
    /\ states[Top].depth >= 2
    /\ Len(generate_successors(Top)) >= 3

(* C3: move generator exactness.  The piece lists of the boards            *)
(* generate_successors returns are exactly the piece lists one legal slide *)
(* away: one piece moved one cell, every cell it newly covers in the grid  *)
(* and empty.                                                              *)
C3_SuccessorsExact ==
    (Searching /\ frontier # << >>) =>
        LET successors == generate_successors(Top)
        IN  {successors[k].board.pieces : k \in DOMAIN successors}
              = SlidLists(states[Top].board.pieces)

\* the popped board has a 1x2 piece that can slide along and across its axis
C3_Witness ==
    /\ Searching /\ frontier # << >>
    /\ \E i \in DOMAIN states[Top].board.pieces :
          LET p == states[Top].board.pieces[i]
              ps == PieceSet(states[Top].board.pieces)
          IN  /\ p.orientation = "h"
              /\ LegalSlide(ps, p, "left") /\ LegalSlide(ps, p, "down")
              /\ ~ LegalSlide(ps, p, "up")

(* C4: termination.  On every initial board, solvable or not, a search    *)
(* that keeps running eventually returns: DFS and A_star each end with a   *)
(* state or with None.                                                     *)
C4_Terminates == <>Returned

\* a search returned after exhausting a frontier that held duplicates
C4_Witness ==
    /\ Returned /\ solution = None
    /\ Len(expanded) >= 16

(* C5: DFS finds a valid path.  When DFS has returned on an initial board  *)
(* from which the goal position can be reached, it returned a state with   *)
(* the goal piece at (1, 3) whose parent chain ends at the root, each      *)
(* board of the chain one legal slide away from its parent's board.        *)
C5_DFSValidPath ==
    (algo = "dfs" /\ Returned /\ ShortestSolution(in_pieces) >= 0) =>
        /\ solution # None
        /\ GoalAt(PieceSet(states[solution].board.pieces), 1, 3)
        /\ LET chain == Ancestry(states, solution)
           IN  /\ chain[Len(chain)] = first_state
               /\ \A k \in 1 .. Len(chain) - 1 :
                     states[chain[k]].board.pieces
                        \in SlidLists(states[chain[k + 1]].board.pieces)

\* DFS returned a path of many moves, longer than the shortest one
C5_Witness ==
    /\ algo = "dfs" /\ Returned /\ solution # None
    /\ states[solution].depth >= 10
    /\ states[solution].depth > ShortestSolution(in_pieces)

(* C6: no-solution outcome.  A search that has returned returned None      *)
(* exactly when no board with the goal piece at (1, 3) can be reached from *)
(* the initial board (as on a board with no empty cell and the goal piece  *)
(* elsewhere).                                                             *)
C6_NoneIffUnreachable ==
    Returned => (solution = None <=> ShortestSolution(in_pieces) < 0)

\* None was returned on a board without an empty cell
C6_Witness ==
    /\ Returned /\ solution = None
    /\ Occupied(PieceSet(in_pieces)) = AllCells
    /\ ~ GoalAt(PieceSet(in_pieces), 1, 3)

(* C7: no-solution is handled as a normal result.  When the search         *)
(* returned None, write_to_file completes normally, having written the     *)
(* initial board and nothing else.                                         *)
C7_NoSolutionWrittenNormally ==
    (solution = None /\ pc \notin {"main", "dfs", "astar", "write"}) =>
        /\ pc = "done"
        /\ output = << states[first_state].board.grid >>

(* C8: invalid configurations are rejected.  Board construction on a piece *)
(* list with overlapping pieces, a piece outside the grid or a number of   *)
(* goal pieces other than one ends in an error and yields no Board, so no  *)
(* search starts on it (any raised error is counted as the rejection).     *)
C8_InvalidRejected ==
    (~ ValidPieces(in_pieces) /\ pc # "construct") =>
        /\ pc \in {"InvalidConfiguration", "IndexError"}
        /\ states = << >>

(* C9: no double expansion.  generate_successors is called at most once    *)
(* per id, every call of visited.add adds an id that was not in the set    *)
(* (one per expansion, and one for the goal state A_star returns), and a   *)
(* returned state's id was not visited before it was popped.               *)
C9_NoDoubleExpansion ==
    /\ \A i, j \in DOMAIN expanded : i # j => expanded[i] # expanded[j]
    /\ {expanded[k] : k \in DOMAIN expanded} \subseteq visited
    /\ Cardinality(visited)
         = Len(expanded)
           + (IF algo = "astar" /\ Returned /\ solution # None THEN 1 ELSE 0)
    /\ (Returned /\ solution # None) =>
           \A k \in DOMAIN expanded : expanded[k] # states[solution].id

\* the state about to be popped has an id that was expanded before
C9_Witness ==
    /\ Searching /\ frontier # << >>
    /\ \E k \in DOMAIN expanded : expanded[k] = states[Top].id
    /\ Len(expanded) >= 3

(* C10: goal-only scenario.  On the board that holds only the goal piece   *)
(* at (1, 0), A_star returns a state of depth 3 with the goal piece at     *)
(* (1, 3), reached from the root by down, down, down.                      *)
C10_GoalOnlyThreeDown ==
    (in_pieces = << Goal2x2(1, 0) >> /\ algo = "astar" /\ Returned) =>
        /\ solution # None
        /\ states[solution].depth = 3
        /\ LET chain == Ancestry(states, solution)
           IN  [k \in 1 .. Len(chain) |->
                   states[chain[k]].board.goal_piece_coordinates]
                 = << <<1, 3>>, <<1, 2>>, <<1, 1>>, <<1, 0>> >>

\* A_star has returned on the goal-only board with the goal piece at (1, 0)
C10_Witness ==
    /\ in_pieces = << Goal2x2(1, 0) >> /\ algo = "astar" /\ Returned
    /\ solution # None

C12_Reproducible ==
    (pc \in {"done", "AttributeError"} /\ previous # << >>) =>
        output = previous

(* C13: result extraction order.  For a returned state of depth d,         *)
(* write_to_file writes d + 1 boards: the root's board first and nowhere   *)
(* else, the returned state's board last, and every board after the first  *)
(* is the board of the child, on the returned state's parent chain, of the *)
(* state whose board was written before it.                                *)
C13_RootToGoalOrder ==
    (pc = "done" /\ solution # None) =>
        LET d == states[solution].depth
            chain == Ancestry(states, solution)
        IN  /\ Len(output) = d + 1
            /\ Len(chain) = d + 1
            /\ output[1] = states[first_state].board.grid
            /\ \A k \in 2 .. Len(output) :
                   output[k] # states[first_state].board.grid
            /\ output[Len(output)] = states[solution].board.grid
            /\ \A k \in 1 .. Len(output) :
                   output[k] = states[chain[d + 2 - k]].board.grid
            /\ \A k \in 2 .. Len(output) :
                   states[chain[d + 2 - k]].parent = chain[d + 3 - k]

\* write_to_file has written a solution of several moves
C13_Witness ==
    /\ pc = "done" /\ solution # None
    /\ states[solution].depth >= 3
    /\ Len(output) >= 4

(* C14: purity of the move generator.  A call generate_successors(s)       *)
(* leaves s (board pieces, grid, goal_piece_coordinates, depth, f, parent, *)
(* id) and every state created before as they were, and every call of      *)
(* get_new_state moves the piece on a Board object of its own, not on the  *)
(* board of s: each successor owns a fresh board.                          *)
C14_GeneratorPure ==
    [][Len(expanded') > Len(expanded) =>
          /\ \A s \in DOMAIN states : states'[s] = states[s]
          /\ \A n \in DOMAIN CallsOf(Top) :
                 LET c == CallsOf(Top)[n]
                     objects == MovedObjects(states[Top].board, c[1], c[2], c[3])
                 IN  /\ objects.new_board # "original"
                     /\ objects.original = states[Top].board
                     /\ objects[objects.new_board].pieces
                           # states[Top].board.pieces]_vars

\* generate_successors has been called several times, the last time on a
\* state that was itself a successor, and it returned several successors
C14_Witness ==
    /\ Searching
    /\ Len(expanded) >= 3
    /\ \E s \in DOMAIN states :
          /\ states[s].id = expanded[Len(expanded)]
          /\ states[s].depth >= 2
          /\ Cardinality({c \in DOMAIN states : states[c].parent = s}) >= 3

(* C15: grid/piece synchronisation.  For every state created during a      *)
(* search, the grid of its board is the grid derived from the board's own  *)
(* piece list (rebuilding a Board from board.pieces gives the same grid,   *)
(* which shows every piece on its cells and nothing else), and             *)
(* goal_piece_coordinates is the anchor of the goal piece of that list.    *)
(* Stated of the successors as generate_successors returns them, of the    *)
(* state that is popped, and of all the states there are when the search   *)
(* returns.                                                                *)
GridMatchesPieces(board) ==
    /\ board.grid = Board(board.pieces).grid
    /\ board.grid = DerivedGrid(board.pieces)
    /\ \E i \in DOMAIN board.pieces :
           /\ board.pieces[i].is_goal
           /\ board.goal_piece_coordinates
                = <<board.pieces[i].coord_x, board.pieces[i].coord_y>>

C15_GridMatchesPieces ==
    /\ (Searching /\ frontier # << >>) =>
           /\ GridMatchesPieces(states[Top].board)
           /\ \A successors \in {generate_successors(Top)} :
                  \A k \in DOMAIN successors :
                      GridMatchesPieces(successors[k].board)
    /\ pc \in {"main", "write"} =>
           \A s \in DOMAIN states : GridMatchesPieces(states[s].board)

\* a search holds states created by get_new_state, several moves deep, in
\* which a 1x2 piece and the goal piece have both left their first cells
C15_Witness ==
    /\ Searching
    /\ \E s \in DOMAIN states :
          /\ states[s].depth >= 3
          /\ states[s].board.goal_piece_coordinates
                # states[first_state].board.goal_piece_coordinates
          /\ \E i \in DOMAIN states[s].board.pieces :
                 /\ states[s].board.pieces[i].orientation \in {"h", "v"}
                 /\ states[s].board.pieces[i] # states[first_state].board.pieces[i]

(* C16: priority definition.  Every state in the frontier of A_star, the   *)
(* root state built by the main block included, has                        *)
(* f = depth + manhattan_distance(board).                                  *)
C16_PriorityIsDepthPlusH ==
    pc = "astar" =>
        \A k \in DOMAIN frontier :
            states[frontier[k]].f
              = states[frontier[k]].depth
                + manhattan_distance(states[frontier[k]].board)

(* C17: parent-chain invariant.  The root has depth 0 and no parent; every *)
(* state generate_successors(s) returns has parent s and depth             *)
(* s.depth + 1; from every state in the frontier and from the returned     *)
(* state the parent links reach the root in exactly depth steps, through   *)
(* State objects that are all different.  A frontier state is looked at    *)
(* when it is popped, or when the search returns if it is never popped.    *)
C17_ParentChain ==
    /\ states[first_state].depth = 0
    /\ states[first_state].parent = None
    /\ (Searching /\ frontier # << >>) =>
           \A successors \in {generate_successors(Top)} :
               \A k \in DOMAIN successors :
                   /\ successors[k].parent = Top
                   /\ successors[k].depth = states[Top].depth + 1
    /\ \A s \in (IF Searching /\ frontier # << >> THEN {Top} ELSE {})
                \cup (IF pc = "write"
                      THEN {frontier[k] : k \in DOMAIN frontier} ELSE {})
                \cup (IF Returned /\ solution # None THEN {solution} ELSE {}) :
           \A chain \in {Ancestry(states, s)} :
               /\ Len(chain) = states[s].depth + 1
               /\ chain[Len(chain)] = first_state
               /\ \A i, j \in DOMAIN chain : i # j => chain[i] # chain[j]
               /\ \A i \in DOMAIN chain :
                      states[chain[i]].depth = states[s].depth + 1 - i

\* the frontier holds states several moves deep, and the state about to be
\* popped has successors
C17_Witness ==
    /\ Searching /\ frontier # << >>
    /\ states[Top].depth >= 2
    /\ generate_successors(Top) # << >>
    /\ \E k \in DOMAIN frontier : states[frontier[k]].depth >= 4

(* C18: identity is content-based.  For any two valid boards the key the   *)
(* id is computed from, str(board.grid), is the same exactly when the two  *)
(* boards have the same multiset of (kind, x, y) pieces, whatever the      *)
(* order of their piece lists.  Stated of every two states there are when  *)
(* a search returns and of the initial boards, each giving the pair        *)
(* <<key, multiset>> of its board.                                         *)
C18_KeyIsContent ==
    pc = "write" =>
        \A keyed \in {{<<str(states[s].board.grid),
                          PieceMultiset(states[s].board.pieces)>> :
                           s \in {s \in DOMAIN states :
                                     ValidPieces(states[s].board.pieces)}}
                       \cup {<<str(Board(pieces).grid), PieceMultiset(pieces)>> :
                                pieces \in InitPieces}} :
            \A b1, b2 \in keyed : b1[1] = b2[1] <=> b1[2] = b2[2]

\* the search created two states with the same pieces in piece lists of
\* different order, and two states with different pieces
C18_Witness ==
    /\ pc = "write"
    /\ \E s1, s2 \in DOMAIN states :
          /\ states[s1].board.pieces # states[s2].board.pieces
          /\ PieceMultiset(states[s1].board.pieces)
                = PieceMultiset(states[s2].board.pieces)
          /\ str(states[s1].board.grid) = str(states[s2].board.grid)
    /\ \E s1, s2 \in DOMAIN states :
          /\ PieceMultiset(states[s1].board.pieces)
                # PieceMultiset(states[s2].board.pieces)
          /\ str(states[s1].board.grid) # str(states[s2].board.grid)

(* C19: frame of a single move.  The piece list of every successor has the *)
(* length of its parent's list and the same kinds in the same order, and   *)
(* differs from it in exactly one piece, whose anchor is 1 away in exactly *)
(* one of x and y; every other piece has its kind and coordinates.         *)
C19_OnePieceOneCell ==
    (Searching /\ frontier # << >>) =>
        \A successors \in {generate_successors(Top)} :
            \A k \in DOMAIN successors :
                LET old == states[Top].board.pieces
                    new == successors[k].board.pieces
                IN  /\ Len(new) = Len(old)
                    /\ \A i \in DOMAIN old :
                           /\ new[i].is_goal = old[i].is_goal
                           /\ new[i].is_single = old[i].is_single
                           /\ new[i].orientation = old[i].orientation
                    /\ Cardinality({i \in DOMAIN old : new[i] # old[i]}) = 1
                    /\ \A i \in DOMAIN old :
                           new[i] # old[i] =>
                               Abs(new[i].coord_x - old[i].coord_x)
                               + Abs(new[i].coord_y - old[i].coord_y) = 1

\* the popped state has several pieces, one of the first of its list can
\* move, and so can a later one
C19_Witness ==
    /\ Searching /\ frontier # << >>
    /\ Len(states[Top].board.pieces) >= 2
    /\ \E k1, k2 \in DOMAIN generate_successors(Top) :
          /\ generate_successors(Top)[k1].board.pieces[1]
                # states[Top].board.pieces[1]
          /\ generate_successors(Top)[k2].board.pieces[1]
                = states[Top].board.pieces[1]

(* C20: no duplicate successors.  For every valid board,                   *)
(* generate_successors returns at most one successor per piece and         *)
(* direction, no two of the successors it returns have the same grid, and  *)
(* none has the grid of the expanded state.                                *)
C20_NoDuplicateSuccessors ==
    (Searching /\ frontier # << >> /\ ValidPieces(states[Top].board.pieces)) =>
        \A successors \in {generate_successors(Top)} :
            LET old == states[Top].board.pieces
            IN  /\ \A i \in DOMAIN old, d \in DirectionSet :
                       Cardinality({k \in DOMAIN successors :
                                      successors[k].board.pieces
                                        = [old EXCEPT ![i] = Slid(old[i], d)]}) <= 1
                /\ \A k \in DOMAIN successors :
                       \E i \in DOMAIN old, d \in DirectionSet :
                           successors[k].board.pieces
                             = [old EXCEPT ![i] = Slid(old[i], d)]
                /\ \A k1, k2 \in DOMAIN successors :
                       k1 # k2 =>
                           successors[k1].board.grid # successors[k2].board.grid
                /\ \A k \in DOMAIN successors :
                       successors[k].board.grid # states[Top].board.grid

\* the popped board has pieces of the same kind next to one empty cell,
\* which two of them can enter, and generate_successors returns several
\* successors
C20_Witness ==
    /\ Searching /\ frontier # << >>
    /\ Len(generate_successors(Top)) >= 3
    /\ \E i, j \in DOMAIN states[Top].board.pieces :
          LET old == states[Top].board.pieces
              ps == PieceSet(old)
          IN  /\ i # j
              /\ old[i].is_single /\ old[j].is_single
              /\ \E d1, d2 \in DirectionSet :
                     /\ LegalSlide(ps, old[i], d1)
                     /\ LegalSlide(ps, old[j], d2)
                     /\ Footprint(Slid(old[i], d1)) = Footprint(Slid(old[j], d2))

(* C21: heuristic step bound.  For the state a search is about to pop and  *)
(* every successor generate_successors returns for it, manhattan_distance  *)
(* of the successor's board differs from that of the popped board by at    *)
(* most 1, and is equal to it when the piece that moved is not the goal    *)
(* piece; the successor's f carries that distance (f - depth).             *)
C21_HeuristicStep ==
    (Searching /\ frontier # << >>) =>
        \A successors \in {generate_successors(Top)} :
            \A k \in DOMAIN successors :
                LET old == states[Top].board
                    new == successors[k].board
                    h_old == manhattan_distance(old)
                    h_new == manhattan_distance(new)
                IN  /\ Abs(h_new - h_old) <= 1
                    /\ successors[k].f - successors[k].depth = h_new
                    /\ (\A i \in DOMAIN old.pieces :
                            new.pieces[i] # old.pieces[i]
                                => ~ old.pieces[i].is_goal)
                           => h_new = h_old

\* the popped board is not the root, and it has a successor that moved the
\* goal piece towards the target, one that moved it away, and one that
\* moved another piece
C21_Witness ==
    /\ Searching /\ frontier # << >>
    /\ states[Top].parent # None
    /\ \E successors \in {generate_successors(Top)} :
          \E k1, k2, k3 \in DOMAIN successors :
              LET old == states[Top].board
              IN  /\ manhattan_distance(successors[k1].board)
                        = manhattan_distance(old) - 1
                  /\ manhattan_distance(successors[k2].board)
                        = manhattan_distance(old) + 1
                  /\ successors[k3].board.goal_piece_coordinates
                        = old.goal_piece_coordinates
                  /\ successors[k3].board.pieces # old.pieces

(* C22: A* first visit is shortest.  In a run of A_star, the state whose   *)
(* id the next iteration adds to the visited set (the popped state, its id *)
(* not yet visited) has as depth the least number of legal slides from the *)
(* initial board to its board.                                             *)
C22_FirstVisitShortest ==
    (pc = "astar" /\ frontier # << >>) =>
        \A popped \in {AStarTop} :
            ~ AlreadyVisited(popped) =>
                states[popped].depth
                  = SlideDistance(in_pieces, states[popped].board.pieces)

\* the popped state is at least two slides from the initial board, and the
\* search also created a deeper state with the same board, which the visited
\* set will discard
C22_Witness ==
    /\ pc = "astar" /\ frontier # << >>
    /\ \E popped \in {AStarTop} :
          /\ ~ AlreadyVisited(popped)
          /\ states[popped].depth >= 2
          /\ \E s \in DOMAIN states :
                 /\ states[s].id = states[popped].id
                 /\ states[s].depth > states[popped].depth

(* C23: A* pop order.  In a run of A_star, every pop removes from the      *)
(* frontier one state than which no frontier state is smaller by           *)
(* (f, then id) and leaves the others in it, and the state the following   *)
(* pop removes has an f that is not below the f of the state popped now.   *)
C23_PopOrder ==
    [][(pc = "astar" /\ frontier # << >>) =>
          \E popped \in {heappop(states, frontier)} :
              /\ \E k \in DOMAIN frontier :
                     /\ frontier[k] = popped[1]
                     /\ \E others \in
                            {[j \in 1 .. Len(frontier) - 1 |->
                                 frontier[IF j < k THEN j ELSE j + 1]]} :
                            /\ Len(popped[2]) = Len(others)
                            /\ \A s \in DOMAIN states :
                                   Cardinality({j \in DOMAIN others :
                                                  others[j] = s})
                                   = Cardinality({j \in DOMAIN popped[2] :
                                                    popped[2][j] = s})
              /\ \A k \in DOMAIN frontier :
                     /\ states[popped[1]].f <= states[frontier[k]].f
                     /\ states[popped[1]].f = states[frontier[k]].f
                            => ~ IntLess(states[frontier[k]].id,
                                         states[popped[1]].id)
              /\ (pc' = "astar" /\ frontier' # << >>)
                    => states[popped[1]].f <= states'[AStarTop'].f
      ]_vars

\* the heap holds several states with different f values, the smallest is
\* not the one pushed last, and the state popped has a larger f than the
\* root had
C23_Witness ==
    /\ pc = "astar" /\ Len(frontier) >= 3
    /\ \E k1, k2 \in DOMAIN frontier :
          states[frontier[k1]].f < states[frontier[k2]].f
    /\ AStarTop # frontier[Len(frontier)]
    /\ states[AStarTop].f >= 2

(* C24: the goal predicates agree.  On the board of every state a search   *)
(* holds in its frontier (the initial board and every board a search       *)
(* reached from it), goal_test of hrd_starter.py is true exactly when      *)
(* goal_test of solution.py is true.                                       *)
C24_GoalTestsAgree ==
    Searching =>
        \A s \in {frontier[k] : k \in DOMAIN frontier} :
            hrd_starter_goal_test(s) <=> goal_test(s)

\* the frontier holds a state, not the root, on which both tests are true,
\* and one whose goal piece covers grid[4][1] but not grid[4][2]
C24_Witness ==
    /\ Searching
    /\ \E k1, k2 \in DOMAIN frontier :
          /\ states[frontier[k1]].parent # None
          /\ goal_test(frontier[k1])
          /\ hrd_starter_goal_test(frontier[k1])
          /\ states[frontier[k2]].board.grid[4][1] = char_goal
          /\ states[frontier[k2]].board.grid[4][2] # char_goal

(* C25: initial board already solved.  When the initial board has the goal *)
(* piece at (1, 3), DFS and A_star return at their first pop: while the    *)
(* search runs nothing was popped yet (the frontier holds the root alone), *)
(* and once it returned, the result is the root State, of depth 0 and      *)
(* without parent, no state was expanded and no other State was created.   *)
C25_SolvedAtRoot ==
    GoalAt(PieceSet(in_pieces), 1, 3) =>
        /\ Searching => frontier = << first_state >>
        /\ Returned =>
              /\ solution = first_state
              /\ states[solution].depth = 0
              /\ states[solution].parent = None
              /\ states[solution].board = Board(in_pieces)
              /\ expanded = << >>
              /\ Len(states) = 1
              /\ frontier = << >>

\* a search returned on an initial board with the goal piece at (1, 3) and
\* other pieces that could move
C25_Witness ==
    /\ GoalAt(PieceSet(in_pieces), 1, 3)
    /\ pc = "write"
    /\ solution = first_state
    /\ Len(in_pieces) > 1
    /\ SlidBoards(PieceSet(in_pieces)) # {}

(* C26: independent searches do not interfere.  When DFS and A_star run on *)
(* the same root State with their iterations interleaved in any order, the *)
(* root State stays as it was built, and the search that also ran alone    *)
(* returns, by content, what it returned alone (either search is the one   *)
(* that ran alone).                                                        *)
C26_NoInterference ==
    suspended.pc # "absent" =>
        /\ states[first_state] = State(Board(in_pieces), 0, 0, None)
        /\ (pc = "write" /\ algo = alone[1].algo) =>
               ResultValue(states, solution) = alone[1].result
        /\ (suspended.pc = "write" /\ suspended.algo = alone[1].algo) =>
               ResultValue([suspended.states EXCEPT
                                ![first_state] = states[first_state]],
                           suspended.solution) = alone[1].result

\* both searches returned a state below the root, each after the other had
\* expanded the root and run some of its iterations
C26_Witness ==
    /\ pc = "write" /\ suspended.pc = "write"
    /\ solution # None /\ suspended.solution # None
    /\ states[solution].depth >= 2
    /\ Len(expanded) >= 2 /\ Len(suspended.expanded) >= 2
    /\ ResultValue(states, solution)
          # ResultValue(suspended.states, suspended.solution)

====
